---- MODULE Spec2Model ----
(***************************************************************************)
(* crankit-input: the Button enumeration, the ButtonSet bitset and its     *)
(* algebra, the d-pad projection, and the per-frame ButtonsState built     *)
(* from three raw hardware masks.                                          *)
(*                                                                         *)
(* The sources hold two shapes of the crate.  "lib" is src/lib.rs          *)
(* (InputSystem, a Button enum without discriminants, ButtonSet built from *)
(* the ffi mask by try_into().unwrap_or_default()).  "button" is           *)
(* src/button.rs with the bindings of src/interop/playdate_sys.rs and      *)
(* src/impls/playdate_sys.rs (a #[repr(u8)] Button enum, ButtonSet built   *)
(* from the ffi mask by `bits as u8`).  The variable `variant` says which  *)
(* of the two is running.                                                  *)
(***************************************************************************)
EXTENDS Integers, Sequences, FiniteSets, TLC

VARIABLES variant, self, other, pre, op, button, raw, iter, ret, frame, state, held

vars == <<variant, self, other, pre, op, button, raw, iter, ret, frame, state, held>>

(***************************************************************************)
(* Bounds                                                                  *)
(***************************************************************************)
\* longest sequence of Buttons handed to from_iter / extend
MaxLen == 3
\* number of raw mask bits above the low 8 that are exercised (bits 8, 9, ..)
MaxHigh == 2

(***************************************************************************)
(* Program constants                                                       *)
(***************************************************************************)
\* largest value of the u8 that backs a ButtonSet
U8Max == 255
\* the hardware layout, PDButtons::kButton*
kButtonLeft == 1
kButtonRight == 2
kButtonUp == 4
kButtonDown == 8
kButtonB == 16
kButtonA == 32

Variants == {"lib", "button"}

Buttons == {"Left", "Right", "Up", "Down", "A", "B"}

U8 == 0..U8Max

(***************************************************************************)
(* Integer operators of the language: u8/u32 `&`, `|`, `as u8`, try_into   *)
(***************************************************************************)
RECURSIVE BitAnd(_, _)
BitAnd(x, y) ==
    IF x = 0 \/ y = 0 THEN 0
    ELSE (x % 2) * (y % 2) + 2 * BitAnd(x \div 2, y \div 2)

\* `^` written for `|`
RECURSIVE BitOr_xor(_, _)
BitOr_xor(x, y) ==
    IF x = 0 THEN y
    ELSE IF y = 0 THEN x
    ELSE (IF (x % 2) # (y % 2) THEN 1 ELSE 0) + 2 * BitOr_xor(x \div 2, y \div 2)

RECURSIVE BitOr(_, _)
BitOr(x, y) ==
    IF x = 0 THEN y
    ELSE IF y = 0 THEN x
    ELSE (IF x % 2 = 1 \/ y % 2 = 1 THEN 1 ELSE 0) + 2 * BitOr(x \div 2, y \div 2)

\* `bits as u8`: truncation to the low 8 bits
AsU8(bits) == bits % (U8Max + 1)

\* `bits.try_into().unwrap_or_default()`: the value when it fits a u8, else 0
TryIntoU8OrDefault(bits) == IF bits <= U8Max THEN bits ELSE 0

(***************************************************************************)
(* Button                                                                  *)
(***************************************************************************)
\* the discriminants of B and A exchanged
Discriminant_swapped(b) ==
    CASE b = "Left" -> 1
      [] b = "Right" -> 2
      [] b = "Up" -> 4
      [] b = "Down" -> 8
      [] b = "B" -> 32
      [] b = "A" -> 16

\* button.rs: #[repr(u8)] enum Button { Left = 1, .. A = 32 }, `value as u8`
Discriminant(b) ==
    CASE b = "Left" -> 1
      [] b = "Right" -> 2
      [] b = "Up" -> 4
      [] b = "Down" -> 8
      [] b = "B" -> 16
      [] b = "A" -> 32

\* lib.rs: impl From<Button> for ffi::Buttons, a match onto the constants
FfiButtonsFromButton(b) ==
    CASE b = "Left" -> kButtonLeft
      [] b = "Right" -> kButtonRight
      [] b = "Up" -> kButtonUp
      [] b = "Down" -> kButtonDown
      [] b = "B" -> kButtonB
      [] b = "A" -> kButtonA

\* interop/playdate_sys.rs, impls/playdate_sys.rs: Self(value as u32)
PDButtonsFromButtonCast(b) == Discriminant(b)

\* Button -> raw hardware mask, in the running variant
PDButtonsFromButton(v, b) ==
    IF v = "lib" THEN FfiButtonsFromButton(b) ELSE PDButtonsFromButtonCast(b)

(***************************************************************************)
(* ButtonSet conversions                                                   *)
(***************************************************************************)
\* raw hardware mask -> ButtonSet, in the running variant
ButtonSetFromPDButtons(v, bits) ==
    IF v = "lib" THEN TryIntoU8OrDefault(bits) ELSE AsU8(bits)

\* a conversion that keeps only the six button bits
PDButtonsFromButtonSet_six(s) == s % 64

\* interop/playdate_sys.rs, impls/playdate_sys.rs: Self(value.0 as u32), the
\* u8 zero-extended to the mask width (the same number, high bits clear)
PDButtonsFromButtonSet(s) == s

\* Button -> ButtonSet: lib.rs goes through the ffi mask, button.rs casts
ButtonSetFromButton(v, b) ==
    IF v = "lib" THEN ButtonSetFromPDButtons(v, FfiButtonsFromButton(b))
    ELSE Discriminant(b)

(***************************************************************************)
(* ButtonSet                                                               *)
(***************************************************************************)
\* ButtonSet::new() == Self::default()
new == 0

\* an equality that compares the six button bits only
eq_buttons(a, b) == (a % 64) = (b % 64)

\* #[derive(Eq, PartialEq)] on the tuple struct: equality of the u8
eq(a, b) == a = b

\* `>= 0` written for `> 0`
contains_any_ge(s, buttons) == BitAnd(s, buttons) >= 0

\* a subset test written for the overlap test
contains_any_subset(s, buttons) == BitAnd(s, buttons) = buttons

\* (self.0 & buttons.0) > 0
contains_any(s, buttons) == BitAnd(s, buttons) > 0

\* self.contains_any(button.into())
contains(v, s, b) == contains_any(s, ButtonSetFromButton(v, b))

\* `=` written for `|=`: the set becomes the singleton
insert_overwrite(v, s, b) == ButtonSetFromButton(v, b)

\* `^=` written for `|=`: inserting a present button removes it
insert_toggle(v, s, b) ==
    BitOr(s, ButtonSetFromButton(v, b)) - BitAnd(s, ButtonSetFromButton(v, b))

\* self.0 |= ButtonSet::from(button).0
insert(v, s, b) == BitOr(s, ButtonSetFromButton(v, b))

\* only the first element of the iterator is inserted
extend_first(v, s, it) ==
    IF it = <<>> THEN s ELSE BitOr(s, ButtonSetFromButton(v, Head(it)))

\* iter.into_iter().for_each(|b| self.insert(b))
RECURSIVE extend(_, _, _)
extend(v, s, it) ==
    IF it = <<>> THEN s
    ELSE extend(v, insert(v, s, Head(it)), Tail(it))

\* let mut result = Self::default(); result.extend(iter); result
from_iter(v, it) == extend(v, new, it)

\* a priority pick in place of the sum: Up wins over Down, Left over Right
d_pad_priority(v, s) ==
    LET y == IF BitAnd(s, ButtonSetFromButton(v, "Up")) > 0 THEN 0 - 1
             ELSE IF BitAnd(s, ButtonSetFromButton(v, "Down")) > 0 THEN 1 ELSE 0
        x == IF BitAnd(s, ButtonSetFromButton(v, "Left")) > 0 THEN 0 - 1
             ELSE IF BitAnd(s, ButtonSetFromButton(v, "Right")) > 0 THEN 1 ELSE 0
    IN  <<x, y>>

\* the d-pad vector <<x, y>>
d_pad(v, s) ==
    LET y1 == IF contains(v, s, "Up") THEN 0 - 1 ELSE 0
        y2 == IF contains(v, s, "Down") THEN y1 + 1 ELSE y1
        x1 == IF contains(v, s, "Left") THEN 0 - 1 ELSE 0
        x2 == IF contains(v, s, "Right") THEN x1 + 1 ELSE x1
    IN  <<x2, y2>>

\* lib.rs: (kButtonLeft.0 | kButtonUp.0 | kButtonRight.0 | kButtonDown.0) as u8
D_PAD_lib ==
    AsU8(BitOr(BitOr(BitOr(kButtonLeft, kButtonUp), kButtonRight), kButtonDown))

\* button.rs: Button::Left as u8 | Button::Right as u8 | Button::Up as u8 | ..
D_PAD_button ==
    BitOr(BitOr(BitOr(Discriminant("Left"), Discriminant("Right")),
                Discriminant("Up")), Discriminant("Down"))

\* the constant built from all six buttons
D_PAD_all(v) ==
    BitOr(IF v = "lib" THEN D_PAD_lib ELSE D_PAD_button, BitOr(kButtonB, kButtonA))

D_PAD(v) == IF v = "lib" THEN D_PAD_lib ELSE D_PAD_button

\* spec 4.1: union of two ButtonSets, a new value, the bitwise OR of the masks
union(a, b) == BitOr(a, b)

\* spec 4.1: intersection of two ButtonSets, the bitwise AND of the masks
intersection(a, b) == BitAnd(a, b)

(***************************************************************************)
(* ButtonsState: [current, pushed, released], each a ButtonSet             *)
(***************************************************************************)
is_pressed(v, st, b) == contains(v, st.current, b)

is_just_pressed(v, st, b) == contains(v, st.pushed, b)

\* is_just_released reading the pushed field
is_just_released_pushed(v, st, b) == BitAnd(st.pushed, ButtonSetFromButton(v, b)) > 0

is_just_released(v, st, b) == contains(v, st.released, b)

is_any_pressed(st, buttons) == contains_any(st.current, buttons)

is_any_just_pressed(st, buttons) == contains_any(st.pushed, buttons)

is_any_just_released(st, buttons) == contains_any(st.released, buttons)

state_d_pad(v, st) == d_pad(v, st.current)

d_pad_just_pressed(v, st) == d_pad(v, st.pushed)

d_pad_just_released(v, st) == d_pad(v, st.released)

\* a binding that keeps history: the buttons of the previous frame stay in
\* current until they are reported released
buttons_state_sticky(v, masks) ==
    [current |-> BitOr(state.current, ButtonSetFromPDButtons(v, masks[1])),
     pushed |-> ButtonSetFromPDButtons(v, masks[2]),
     released |-> ButtonSetFromPDButtons(v, masks[3])]

\* buttons_state(): the three masks written by getButtonState, each .into()
buttons_state(v, masks) ==
    [current |-> ButtonSetFromPDButtons(v, masks[1]),
     pushed |-> ButtonSetFromPDButtons(v, masks[2]),
     released |-> ButtonSetFromPDButtons(v, masks[3])]

(***************************************************************************)
(* Input domains                                                           *)
(***************************************************************************)
\* sequences of Buttons of length 0..MaxLen
ButtonSeqs == UNION {[1..n -> Buttons] : n \in 0..MaxLen}

\* raw hardware masks: every low byte, with any of the exercised high bits
RawMasks == 0..(2^(8 + MaxHigh) - 1)

Range(s) == {s[i] : i \in DOMAIN s}

\* bit i of mask m is set
HasBit(m, i) == (m \div (2^i)) % 2 = 1

\* the bit position the hardware assigns to a button
BitPos(b) ==
    CASE b = "Left" -> 0
      [] b = "Right" -> 1
      [] b = "Up" -> 2
      [] b = "Down" -> 3
      [] b = "B" -> 4
      [] b = "A" -> 5

NoState == [current |-> 0, pushed |-> 0, released |-> 0]

\* number of bits set in a mask
RECURSIVE PopCount(_)
PopCount(m) == IF m = 0 THEN 0 ELSE (m % 2) + PopCount(m \div 2)

\* raw masks a frame is drawn from: nothing held, every single bit, and
\* some combinations (opposite directions, the whole d-pad, all six buttons,
\* the whole low byte, a button with a bit above the low byte)
FrameMasks ==
    {m \in RawMasks : PopCount(m) <= 1} \cup {3, 7, 15, 48, 63, U8Max, U8Max + 1 + 32}

\* third operands for associativity, values for the fields a query ignores
SampleSets == {new, 1, 6, 15, 32, 48, 63, 64, 192, U8Max}

(***************************************************************************)
(* Spec: one ButtonSet under construction and mutation.  `self` is the     *)
(* set, `pre` its value before the last mutation, `op` the last operation, *)
(* `button` / `raw` / `iter` that operation's argument (reset to a fixed   *)
(* value by operations that take none), `ret` a returned raw mask.         *)
(***************************************************************************)
InitSet ==
    /\ variant \in Variants
    /\ held = <<>>
    /\ self = new
    /\ other = 0
    /\ pre = 0
    /\ op = "new"
    /\ button = "Left"
    /\ raw = 0
    /\ iter = <<>>
    /\ ret = 0
    /\ frame = <<0, 0, 0>>
    /\ state = NoState

New ==
    /\ self' = new
    /\ pre' = 0
    /\ op' = "new"
    /\ button' = "Left"
    /\ raw' = 0
    /\ ret' = 0
    /\ UNCHANGED <<held, variant, other, iter, frame, state>>

Insert ==
    \E b \in Buttons :
        /\ self' = insert(variant, self, b)
        /\ pre' = self
        /\ op' = "insert"
        /\ button' = b
        /\ raw' = 0
        /\ ret' = 0
        /\ UNCHANGED <<held, variant, other, iter, frame, state>>

FromRaw ==
    \E m \in RawMasks :
        /\ self' = ButtonSetFromPDButtons(variant, m)
        /\ raw' = m
        /\ pre' = 0
        /\ op' = "from_raw"
        /\ button' = "Left"
        /\ ret' = 0
        /\ UNCHANGED <<held, variant, other, iter, frame, state>>

FromButton ==
    \E b \in Buttons :
        /\ self' = ButtonSetFromButton(variant, b)
        /\ button' = b
        /\ pre' = 0
        /\ op' = "from_button"
        /\ raw' = 0
        /\ ret' = 0
        /\ UNCHANGED <<held, variant, other, iter, frame, state>>

ButtonToRaw ==
    \E b \in Buttons :
        /\ ret' = PDButtonsFromButton(variant, b)
        /\ button' = b
        /\ op' = "button_to_raw"
        /\ self' = new
        /\ pre' = 0
        /\ raw' = 0
        /\ UNCHANGED <<held, variant, other, iter, frame, state>>

\* a set converted to the raw mask type and back; only the button.rs shape
\* has impl From<ButtonSet> for PDButtons
RoundTrip ==
    /\ variant = "button"
    /\ ret' = PDButtonsFromButtonSet(self)
    /\ self' = ButtonSetFromPDButtons(variant, PDButtonsFromButtonSet(self))
    /\ pre' = self
    /\ op' = "round_trip"
    /\ button' = "Left"
    /\ raw' = 0
    /\ UNCHANGED <<held, variant, other, iter, frame, state>>

NextSet ==
    \/ New
    \/ Insert
    \/ FromRaw
    \/ FromButton
    \/ ButtonToRaw
    \/ RoundTrip

Spec == InitSet /\ [][NextSet]_vars

(***************************************************************************)
(* SpecIter: a ButtonSet folded from a sequence of Buttons.  `iter` is the *)
(* sequence the caller holds; from_iter builds a fresh set from it, extend *)
(* folds it into the set at hand.                                          *)
(***************************************************************************)
InitIter ==
    /\ variant \in Variants
    /\ held = <<>>
    /\ iter \in ButtonSeqs
    /\ self = new
    /\ other = 0
    /\ pre = 0
    /\ op = "new"
    /\ button = "Left"
    /\ raw = 0
    /\ ret = 0
    /\ frame = <<0, 0, 0>>
    /\ state = NoState

FromIter ==
    /\ self' = from_iter(variant, iter)
    /\ pre' = 0
    /\ op' = "from_iter"
    /\ button' = "Left"
    /\ UNCHANGED <<held, variant, other, raw, iter, ret, frame, state>>

Extend ==
    /\ self' = extend(variant, self, iter)
    /\ pre' = self
    /\ op' = "extend"
    /\ button' = "Left"
    /\ UNCHANGED <<held, variant, other, raw, iter, ret, frame, state>>

SingleButton ==
    \E b \in Buttons :
        /\ self' = ButtonSetFromButton(variant, b)
        /\ button' = b
        /\ pre' = 0
        /\ op' = "from_button"
        /\ UNCHANGED <<held, variant, other, raw, iter, ret, frame, state>>

NextIter ==
    \/ FromIter
    \/ Extend
    \/ SingleButton

SpecIter == InitIter /\ [][NextIter]_vars

(***************************************************************************)
(* SpecPair: two ButtonSets and the binary operations on them.  Every u8   *)
(* is a ButtonSet a caller can hold (ButtonSet::from of a raw mask).       *)
(***************************************************************************)
InitPair ==
    /\ variant \in Variants
    /\ held = <<>>
    /\ self \in U8
    /\ other \in U8
    /\ pre = 0
    /\ op = "init"
    /\ button = "Left"
    /\ raw = 0
    /\ iter = <<>>
    /\ ret = FALSE
    /\ frame = <<0, 0, 0>>
    /\ state = NoState

ContainsAny ==
    /\ ret' = contains_any(self, other)
    /\ op' = "contains_any"
    /\ UNCHANGED <<held, variant, self, other, pre, button, raw, iter, frame, state>>

Union ==
    /\ ret' = union(self, other)
    /\ op' = "union"
    /\ UNCHANGED <<held, variant, self, other, pre, button, raw, iter, frame, state>>

Intersection ==
    /\ ret' = intersection(self, other)
    /\ op' = "intersection"
    /\ UNCHANGED <<held, variant, self, other, pre, button, raw, iter, frame, state>>

Equals ==
    /\ ret' = eq(self, other)
    /\ op' = "eq"
    /\ UNCHANGED <<held, variant, self, other, pre, button, raw, iter, frame, state>>

NextPair ==
    \/ ContainsAny
    \/ Union
    \/ Intersection
    \/ Equals

SpecPair == InitPair /\ [][NextPair]_vars

(***************************************************************************)
(* SpecFrame: one frame.  `frame` holds the three raw masks the hardware   *)
(* call writes (current, pushed, released); buttons_state() turns them     *)
(* into the ButtonsState the caller then queries.                          *)
(***************************************************************************)
InitFrame ==
    /\ variant \in Variants
    /\ held = <<>>
    /\ frame \in FrameMasks \X FrameMasks \X FrameMasks
    /\ state = NoState
    /\ op = "init"
    /\ self = new
    /\ other = 0
    /\ pre = 0
    /\ button = "Left"
    /\ raw = 0
    /\ iter = <<>>
    /\ ret = 0

GetButtonsState ==
    /\ state' = buttons_state(variant, frame)
    /\ op' = "buttons_state"
    /\ UNCHANGED <<held, variant, self, other, pre, button, raw, iter, ret, frame>>

NextFrame == GetButtonsState

SpecFrame == InitFrame /\ [][NextFrame]_vars

(***************************************************************************)
(* SpecHistory: a sequence of frames.  Every call of buttons_state() gets  *)
(* a fresh triple of raw masks from the hardware and returns a new         *)
(* ButtonsState (a Copy value).  The caller may keep the instance of an    *)
(* earlier frame: `held` is empty, or holds that instance and the masks    *)
(* of the call that returned it.                                           *)
(***************************************************************************)
\* raw masks of the frames of a history
HistoryMasks == {0, kButtonLeft, kButtonB + kButtonA, U8Max + 1 + kButtonA}

InitHistory ==
    /\ variant \in Variants
    /\ held = <<>>
    /\ frame = <<0, 0, 0>>
    /\ state = NoState
    /\ op = "init"
    /\ self = new
    /\ other = 0
    /\ pre = 0
    /\ button = "Left"
    /\ raw = 0
    /\ iter = <<>>
    /\ ret = 0

\* the next frame's call; the caller drops the previous instance
NextFrameCall ==
    \E masks \in HistoryMasks \X HistoryMasks \X HistoryMasks :
        /\ frame' = masks
        /\ state' = buttons_state(variant, masks)
        /\ op' = "buttons_state"
        /\ UNCHANGED <<held, variant, self, other, pre, button, raw, iter, ret>>

\* the caller copies the current instance before going on
KeepState ==
    /\ op = "buttons_state"
    /\ held' = <<[masks |-> frame, st |-> state]>>
    /\ UNCHANGED <<variant, self, other, pre, op, button, raw, iter, ret, frame, state>>

NextHistory ==
    \/ NextFrameCall
    \/ KeepState

SpecHistory == InitHistory /\ [][NextHistory]_vars

(***************************************************************************)
(* Properties                                                              *)
(***************************************************************************)
\* 1 when bit i of m is set, else 0
Bit(m, i) == IF HasBit(m, i) THEN 1 ELSE 0

\* C1: a ButtonSet built from a raw hardware mask contains button b exactly
\* when the bit the hardware assigns to b is set in the mask, whatever other
\* bits (above the button positions, above the low 8 bits) the mask has.
C1_RawMaskReinterpreted ==
    op = "from_raw" =>
        \A b \in Buttons : contains(variant, self, b) <=> HasBit(raw, BitPos(b))

\* C2: d_pad() is [Right - Left, Down - Up] with each term 1 when the button
\* is in the set and 0 otherwise (a sum, so opposite directions cancel), and
\* inserting A or B does not change it.
C2_DPadIsSum ==
    /\ d_pad(variant, self) =
           << Bit(self, BitPos("Right")) - Bit(self, BitPos("Left")),
              Bit(self, BitPos("Down")) - Bit(self, BitPos("Up")) >>
    /\ \A b \in {"A", "B"} :
           d_pad(variant, insert(variant, self, b)) = d_pad(variant, self)

C2_Witness ==
    /\ op = "insert"
    /\ \A b \in {"Left", "Right", "Up"} : HasBit(self, BitPos(b))
    /\ ~HasBit(self, BitPos("Down"))
    /\ d_pad(variant, self) = <<0, 0 - 1>>

\* C5: after insert(b) the set contains b, and every other button b2 is in
\* the set exactly when it was before the insert.
C5_InsertFrame ==
    op = "insert" =>
        /\ contains(variant, self, button)
        /\ \A b2 \in Buttons \ {button} :
               contains(variant, self, b2) <=> contains(variant, pre, b2)

C5_Witness ==
    /\ op = "insert"
    /\ pre # 0
    /\ ~HasBit(pre, BitPos(button))
    /\ HasBit(self, BitPos(button))

\* C6: ButtonSet::new() is the all-zero mask and contains no button.
C6_NewIsEmpty ==
    op = "new" =>
        /\ self = 0
        /\ \A b \in Buttons : ~contains(variant, self, b)

C6_Witness ==
    /\ op = "new"
    /\ self = 0
    /\ ~contains(variant, self, "A")

\* C8: insert is idempotent: inserting a button the set already contains
\* leaves the set as it was, and inserting the same button again after an
\* insert changes nothing.
C8_InsertIdempotent ==
    op = "insert" =>
        /\ contains(variant, pre, button) => self = pre
        /\ insert(variant, self, button) = self

C8_Witness ==
    /\ op = "insert"
    /\ HasBit(pre, BitPos(button))
    /\ pre # ButtonSetFromButton(variant, button)
    /\ self = pre

\* C10: each Button converts to a ButtonSet with exactly the one bit the
\* hardware assigns to it (Left=1, Right=2, Up=4, Down=8, B=16, A=32), the
\* singletons of two different buttons share no bit, and each Button converts
\* to the raw hardware mask that is the hardware constant of that button.
C10_ButtonBits ==
    /\ op = "from_button" =>
           /\ self = 2^BitPos(button)
           /\ PopCount(self) = 1
           /\ \A b2 \in Buttons \ {button} :
                  /\ ButtonSetFromButton(variant, b2) # self
                  /\ \A i \in 0..7 :
                         ~(HasBit(self, i) /\ HasBit(ButtonSetFromButton(variant, b2), i))
    /\ op = "button_to_raw" =>
           /\ ret = 2^BitPos(button)
           /\ ret = FfiButtonsFromButton(button)

C10_Witness ==
    /\ op = "button_to_raw"
    /\ button = "A"
    /\ ret = kButtonA

\* the two masks have a set bit in common
SharesBit(a, b) == \E i \in 0..7 : HasBit(a, i) /\ HasBit(b, i)

\* the two sets have a button in common
SharesButton(v, a, b) == \E x \in Buttons : contains(v, a, x) /\ contains(v, b, x)

\* the mask has no bit outside the six button positions
OnlyButtonBits(m) == ~HasBit(m, 6) /\ ~HasBit(m, 7)

\* C3 as stated: for all ButtonSets A and B, A.contains_any(B) is true
\* exactly when A and B share at least one button.
C3_SharesButton ==
    op = "contains_any" => (ret <=> SharesButton(variant, self, other))

\* C3 amended: A.contains_any(B) is true exactly when the two masks share a
\* set bit; it is false when either set is the all-zero mask; and when both
\* masks have only button bits it is true exactly when A and B share a button.
C3_SharesMaskBit ==
    op = "contains_any" =>
        /\ ret <=> SharesBit(self, other)
        /\ (self = new \/ other = new) => ~ret
        /\ (OnlyButtonBits(self) /\ OnlyButtonBits(other)) =>
               (ret <=> SharesButton(variant, self, other))

C3_Witness ==
    /\ op = "contains_any"
    /\ self = ButtonSetFromButton(variant, "A")
    /\ other = from_iter(variant, <<"A", "B">>)
    /\ ret = TRUE

\* C7: a ButtonSet folded from a sequence of Buttons contains b exactly when
\* b occurs in the sequence, and equals the set folded from any other
\* sequence with the same distinct elements (any order, any repetition);
\* extend adds exactly the elements of the sequence to the set.
C7_OrderIndependent ==
    /\ op = "from_iter" =>
           /\ \A b \in Buttons : contains(variant, self, b) <=> b \in Range(iter)
           /\ \A t \in ButtonSeqs :
                  Range(t) = Range(iter) => from_iter(variant, t) = self
    /\ op = "extend" =>
           \A b \in Buttons :
               contains(variant, self, b) <=>
                   (contains(variant, pre, b) \/ b \in Range(iter))

C7_Witness ==
    /\ op = "from_iter"
    /\ iter = <<"A", "A", "B">>
    /\ self = from_iter(variant, <<"B", "A">>)
    /\ self = 48

\* C9: the union of two ButtonSets has exactly the bits set in either mask
\* and the intersection exactly the bits set in both; both are commutative
\* and associative, the empty set is the identity of union, and neither
\* operation changes its operands.
C9_UnionState ==
    /\ op = "union" =>
           /\ \A i \in 0..7 : HasBit(ret, i) <=> (HasBit(self, i) \/ HasBit(other, i))
           /\ ret \in U8
           /\ ret = union(other, self)
           /\ \A c \in SampleSets : union(ret, c) = union(self, union(other, c))
           /\ union(self, new) = self
           /\ union(new, self) = self
    /\ op = "intersection" =>
           /\ \A i \in 0..7 : HasBit(ret, i) <=> (HasBit(self, i) /\ HasBit(other, i))
           /\ ret \in U8
           /\ ret = intersection(other, self)
           /\ \A c \in SampleSets :
                  intersection(ret, c) = intersection(self, intersection(other, c))

WithFields(st, f, x, y) ==
    CASE f = "current" -> [current |-> st.current, pushed |-> x, released |-> y]
      [] f = "pushed" -> [current |-> x, pushed |-> st.pushed, released |-> y]
      [] f = "released" -> [current |-> x, pushed |-> y, released |-> st.released]

\* C4: on the ButtonsState of a frame, is_pressed / is_just_pressed /
\* is_just_released are contains on current / pushed / released, the
\* is_any_* queries are contains_any on the same fields, the three d_pad
\* queries are d_pad of the same fields, and no query's result changes when
\* the two other fields are replaced.
C4_QueriesDelegate ==
    op = "buttons_state" =>
        /\ \A b \in Buttons :
               /\ is_pressed(variant, state, b) <=> contains(variant, state.current, b)
               /\ is_just_pressed(variant, state, b) <=> contains(variant, state.pushed, b)
               /\ is_just_released(variant, state, b) <=> contains(variant, state.released, b)
        /\ \A q \in SampleSets :
               /\ is_any_pressed(state, q) <=> contains_any(state.current, q)
               /\ is_any_just_pressed(state, q) <=> contains_any(state.pushed, q)
               /\ is_any_just_released(state, q) <=> contains_any(state.released, q)
        /\ state_d_pad(variant, state) = d_pad(variant, state.current)
        /\ d_pad_just_pressed(variant, state) = d_pad(variant, state.pushed)
        /\ d_pad_just_released(variant, state) = d_pad(variant, state.released)
        /\ \A x \in {new, U8Max}, y \in {new, U8Max} :
               /\ \A b \in Buttons :
                      /\ is_pressed(variant, WithFields(state, "current", x, y), b)
                             <=> is_pressed(variant, state, b)
                      /\ is_just_pressed(variant, WithFields(state, "pushed", x, y), b)
                             <=> is_just_pressed(variant, state, b)
                      /\ is_just_released(variant, WithFields(state, "released", x, y), b)
                             <=> is_just_released(variant, state, b)
               /\ \A q \in SampleSets :
                      /\ is_any_pressed(WithFields(state, "current", x, y), q)
                             <=> is_any_pressed(state, q)
                      /\ is_any_just_pressed(WithFields(state, "pushed", x, y), q)
                             <=> is_any_just_pressed(state, q)
                      /\ is_any_just_released(WithFields(state, "released", x, y), q)
                             <=> is_any_just_released(state, q)
               /\ state_d_pad(variant, WithFields(state, "current", x, y))
                      = state_d_pad(variant, state)
               /\ d_pad_just_pressed(variant, WithFields(state, "pushed", x, y))
                      = d_pad_just_pressed(variant, state)
               /\ d_pad_just_released(variant, WithFields(state, "released", x, y))
                      = d_pad_just_released(variant, state)

C4_Witness ==
    /\ op = "buttons_state"
    /\ frame = <<kButtonA, kButtonLeft, kButtonUp>>
    /\ is_pressed(variant, state, "A")
    /\ ~is_just_pressed(variant, state, "A")
    /\ is_just_released(variant, state, "Up")
    /\ d_pad_just_pressed(variant, state) = <<0 - 1, 0>>

Directional == {"Left", "Right", "Up", "Down"}

\* C11: D_PAD contains Left, Right, Up and Down and neither A nor B, equals
\* the set folded from [Left, Right, Up, Down], and a set S overlaps D_PAD
\* (S.contains_any(D_PAD)) exactly when S contains a directional button.
C11_DPadConstant ==
    /\ \A b \in Buttons : contains(variant, D_PAD(variant), b) <=> b \in Directional
    /\ D_PAD(variant) = from_iter(variant, <<"Left", "Right", "Up", "Down">>)
    /\ contains_any(self, D_PAD(variant)) <=>
           \E b \in Directional : HasBit(self, BitPos(b))

C11_Witness ==
    /\ op = "from_raw"
    /\ HasBit(self, BitPos("Up"))
    /\ HasBit(self, BitPos("A"))
    /\ HasBit(self, 6)
    /\ contains_any(self, D_PAD(variant))

\* C12: buttons_state() returns the conversions of the first, second and
\* third raw mask as current, pushed and released, and a button whose bit is
\* set in both the raw pushed and the raw released mask is reported both as
\* just pressed and as just released.
C12_TripleAsSupplied ==
    op = "buttons_state" =>
        /\ state.current = ButtonSetFromPDButtons(variant, frame[1])
        /\ state.pushed = ButtonSetFromPDButtons(variant, frame[2])
        /\ state.released = ButtonSetFromPDButtons(variant, frame[3])
        /\ \A b \in Buttons :
               (HasBit(frame[2], BitPos(b)) /\ HasBit(frame[3], BitPos(b))) =>
                   (is_just_pressed(variant, state, b)
                        /\ is_just_released(variant, state, b))

\* C13: the ButtonsState a call returns is determined by the three raw masks
\* of that call alone (a call with the same triple as an earlier call returns
\* a state equal to the one kept from that call, whatever frames came in
\* between), and a state kept from an earlier frame is not changed by later
\* calls.
C13_NoHistoryState ==
    (op = "buttons_state" /\ held # <<>>) =>
        /\ held[1].masks = frame => state = held[1].st
        /\ \A b \in Buttons :
               is_pressed(variant, held[1].st, b) <=>
                   contains(variant, ButtonSetFromPDButtons(variant, held[1].masks[1]), b)

C13_NoHistory ==
    /\ []C13_NoHistoryState
    /\ [][frame' # frame => held' = held]_vars

C13_Witness ==
    /\ op = "buttons_state"
    /\ held # <<>>
    /\ held[1].masks = <<kButtonB + kButtonA, kButtonLeft, 0>>
    /\ frame = <<kButtonLeft, 0, kButtonB + kButtonA>>
    /\ is_pressed(variant, held[1].st, "A")
    /\ ~is_pressed(variant, state, "A")
    /\ is_just_released(variant, state, "A")

\* C14: converting a ButtonSet to the raw hardware mask type and back gives
\* the same ButtonSet: the mask is unchanged, every button that was in the
\* set is still in it and no button is added.
C14_RoundTrip ==
    op = "round_trip" =>
        /\ self = pre
        /\ \A i \in 0..7 : HasBit(self, i) <=> HasBit(pre, i)
        /\ \A b \in Buttons : contains(variant, self, b) <=> contains(variant, pre, b)
        /\ ret \in RawMasks

C14_Witness ==
    /\ op = "round_trip"
    /\ HasBit(pre, 7)
    /\ HasBit(pre, BitPos("A"))
    /\ self = pre

\* the two sets contain the same buttons
SameButtons(v, a, b) == \A x \in Buttons : contains(v, a, x) <=> contains(v, b, x)

\* C15 as stated: two ButtonSets, however built, are equal exactly when they
\* contain the same buttons.
C15_Extensional ==
    op = "eq" => (ret <=> SameButtons(variant, self, other))

\* C15 amended: two ButtonSets are equal exactly when their masks agree on
\* all 8 bits; equal sets contain the same buttons; and two sets whose masks
\* have only button bits are equal exactly when they contain the same buttons.
C15_MaskEquality ==
    op = "eq" =>
        /\ ret <=> \A i \in 0..7 : HasBit(self, i) <=> HasBit(other, i)
        /\ ret => SameButtons(variant, self, other)
        /\ (OnlyButtonBits(self) /\ OnlyButtonBits(other)) =>
               (ret <=> SameButtons(variant, self, other))

C15_Witness ==
    /\ op = "eq"
    /\ self = from_iter(variant, <<"A", "Up">>)
    /\ other = BitOr(self, 64)
    /\ SameButtons(variant, self, other)
    /\ ret = FALSE

====
